---- MODULE Spec2Model ----
(***************************************************************************)
(* Model of frontend/script.js: the NVMe failure-prediction page.          *)
(*                                                                         *)
(* Strings are sequences of one-character strings so that the label        *)
(* formatting and its inverse are computed character by character.         *)
(* Numbers are exact rationals <<numerator, denominator>> in lowest terms  *)
(* with a positive denominator; NaN and Infinity are separate values.      *)
(***************************************************************************)
EXTENDS Integers, Sequences, FiniteSets, TLC

----------------------------------------------------------------------------
(* Feature names as they appear as keys in script.js. *)
Power_On_Hours == <<"P","o","w","e","r","_","O","n","_","H","o","u","r","s">>
Total_TBW_TB == <<"T","o","t","a","l","_","T","B","W","_","T","B">>
Total_TBR_TB == <<"T","o","t","a","l","_","T","B","R","_","T","B">>
Temperature_C == <<"T","e","m","p","e","r","a","t","u","r","e","_","C">>
Percent_Life_Used == <<"P","e","r","c","e","n","t","_","L","i","f","e","_","U","s","e","d">>
Media_Errors == <<"M","e","d","i","a","_","E","r","r","o","r","s">>
Unsafe_Shutdowns == <<"U","n","s","a","f","e","_","S","h","u","t","d","o","w","n","s">>
CRC_Errors == <<"C","R","C","_","E","r","r","o","r","s">>
Read_Error_Rate == <<"R","e","a","d","_","E","r","r","o","r","_","R","a","t","e">>
Write_Error_Rate == <<"W","r","i","t","e","_","E","r","r","o","r","_","R","a","t","e">>

(* A feature name that has no entry in either max-value table. *)
Wear_Level == <<"W","e","a","r","_","L","e","v","e","l">>

(* Lower-case keys of the table inside getOriginalValueFromNormalized. *)
key_power_on_hours == <<"p","o","w","e","r","_","o","n","_","h","o","u","r","s">>
key_total_tbw_tb == <<"t","o","t","a","l","_","t","b","w","_","t","b">>
key_total_tbr_tb == <<"t","o","t","a","l","_","t","b","r","_","t","b">>
key_temperature_c == <<"t","e","m","p","e","r","a","t","u","r","e","_","c">>
key_percent_life_used == <<"p","e","r","c","e","n","t","_","l","i","f","e","_","u","s","e","d">>
key_media_errors == <<"m","e","d","i","a","_","e","r","r","o","r","s">>
key_unsafe_shutdowns == <<"u","n","s","a","f","e","_","s","h","u","t","d","o","w","n","s">>
key_crc_errors == <<"c","r","c","_","e","r","r","o","r","s">>
key_read_error_rate == <<"r","e","a","d","_","e","r","r","o","r","_","r","a","t","e">>
key_write_error_rate == <<"w","r","i","t","e","_","e","r","r","o","r","_","r","a","t","e">>

----------------------------------------------------------------------------
(* JavaScript numbers.  A finite number is the exact rational <<n, d>> in  *)
(* lowest terms with d > 0; NaN and Infinity have denominator 0.           *)

NaN == <<0, 0>>

Infinity == <<1, 0>>

IsNaN(x) == x = NaN

IsFinite(x) == x[2] > 0

Abs(i) == IF i < 0 THEN -i ELSE i

RECURSIVE GCD(_, _)
GCD(a, b) == IF b = 0 THEN a ELSE GCD(b, a % b)

Rat(n, d) ==
    LET g == GCD(Abs(n), Abs(d))
        s == IF d < 0 THEN -1 ELSE 1
    IN  <<s * (n \div g), s * (d \div g)>>

Num(i) == <<i, 1>>

(* a * b, cancelling common factors before multiplying *)
RMul(a, b) ==
    LET g1 == GCD(Abs(a[1]), b[2])
        g2 == GCD(Abs(b[1]), a[2])
    IN  Rat((a[1] \div g1) * (b[1] \div g2), (a[2] \div g2) * (b[2] \div g1))

(* a / b for b # 0 *)
RDiv(a, b) == RMul(a, Rat(b[2], b[1]))

RSub(a, b) ==
    LET g == GCD(a[2], b[2])
    IN  Rat(a[1] * (b[2] \div g) - b[1] * (a[2] \div g), a[2] * (b[2] \div g))

RLess(a, b) == RSub(a, b)[1] < 0

RLeq(a, b) == RSub(a, b)[1] <= 0

(* Math.min(a, b) *)
MathMin(a, b) == IF RLess(b, a) THEN b ELSE a

Pow10(k) == IF k = 0 THEN 1 ELSE IF k = 1 THEN 10 ELSE 100

(* Number.prototype.toFixed(digits) of a finite number: the decimal string *)
(* with that many fraction digits, written <<units, 10^digits>> (so "2.50" *)
(* is <<250, 100>>); of two equally near candidates the one larger in      *)
(* magnitude is taken.                                                     *)
toFixed(x, digits) ==
    LET scaled == RMul(<<Abs(x[1]), x[2]>>, Num(Pow10(digits)))
        units  == (2 * scaled[1] + scaled[2]) \div (2 * scaled[2])
    IN  <<(IF x[1] < 0 THEN -units ELSE units), Pow10(digits)>>

----------------------------------------------------------------------------
(* Characters and the string methods the page uses. *)

LowerAlpha == <<"a","b","c","d","e","f","g","h","i","j","k","l","m",
                "n","o","p","q","r","s","t","u","v","w","x","y","z">>

UpperAlpha == <<"A","B","C","D","E","F","G","H","I","J","K","L","M",
                "N","O","P","Q","R","S","T","U","V","W","X","Y","Z">>

Digits == {"0","1","2","3","4","5","6","7","8","9"}

IsLower(c) == \E i \in 1..26 : LowerAlpha[i] = c

IsUpper(c) == \E i \in 1..26 : UpperAlpha[i] = c

(* \w *)
IsWordChar(c) == IsLower(c) \/ IsUpper(c) \/ c \in Digits \/ c = "_"

(* \s *)
IsSpace(c) == c = " "

toUpperCase(c) == IF IsLower(c) THEN UpperAlpha[CHOOSE i \in 1..26 : LowerAlpha[i] = c] ELSE c

toLowerCase(c) == IF IsUpper(c) THEN LowerAlpha[CHOOSE i \in 1..26 : UpperAlpha[i] = c] ELSE c

MatchesAt(s, i, pat) ==
    /\ i + Len(pat) - 1 <= Len(s)
    /\ SubSeq(s, i, i + Len(pat) - 1) = pat

(* String.prototype.replace(pat, rep) with a string pattern: first match only *)
ReplaceFirst(s, pat, rep) ==
    IF \E i \in 1..Len(s) : MatchesAt(s, i, pat)
    THEN LET i == CHOOSE k \in 1..Len(s) :
                    /\ MatchesAt(s, k, pat)
                    /\ \A j \in 1..(k - 1) : ~MatchesAt(s, j, pat)
         IN  SubSeq(s, 1, i - 1) \o rep \o SubSeq(s, i + Len(pat), Len(s))
    ELSE s

(* text.replace(/_/g, ' ') *)
UnderscoresToSpaces(s) == [i \in 1..Len(s) |-> IF s[i] = "_" THEN " " ELSE s[i]]

(* formatted.replace(/\b\w/g, l => l.toUpperCase()) *)
CapitalizeWords(s) ==
    [i \in 1..Len(s) |->
        IF IsWordChar(s[i]) /\ (i = 1 \/ ~IsWordChar(s[i - 1]))
        THEN toUpperCase(s[i]) ELSE s[i]]

CelsiusSuffix == <<" ","(","°","C",")">>

(* formatted.replace(/ C(?=\s|$)/g, ' (°C)'), scanning from position i *)
RECURSIVE MarkCelsius(_, _)
MarkCelsius(s, i) ==
    IF i > Len(s) THEN <<>>
    ELSE IF /\ MatchesAt(s, i, <<" ","C">>)
            /\ (i + 2 > Len(s) \/ IsSpace(s[i + 2]))
         THEN CelsiusSuffix \o MarkCelsius(s, i + 2)
         ELSE <<s[i]>> \o MarkCelsius(s, i + 1)

formatLabel(text) ==
    LET spaced      == UnderscoresToSpaces(text)
        capitalized == CapitalizeWords(spaced)
        tb          == ReplaceFirst(capitalized, <<"T","b">>, <<"T","B">>)
    IN  MarkCelsius(tb, 1)

(* the first position at or after i that holds no white space *)
RECURSIVE SkipSpaces(_, _)
SkipSpaces(s, i) == IF i <= Len(s) /\ IsSpace(s[i]) THEN SkipSpaces(s, i + 1) ELSE i

(* featureLabel.replace(/\s*\(°C\)/g, ' C'), scanning from position i *)
RECURSIVE UnmarkCelsius(_, _)
UnmarkCelsius(s, i) ==
    IF i > Len(s) THEN <<>>
    ELSE LET j == SkipSpaces(s, i)
         IN  IF MatchesAt(s, j, <<"(","°","C",")">>)
             THEN <<" ","C">> \o UnmarkCelsius(s, j + 4)
             ELSE <<s[i]>> \o UnmarkCelsius(s, i + 1)

(* .replace(/\s+/g, '_'), scanning from position i *)
RECURSIVE SpacesToUnderscore(_, _)
SpacesToUnderscore(s, i) ==
    IF i > Len(s) THEN <<>>
    ELSE IF IsSpace(s[i])
         THEN <<"_">> \o SpacesToUnderscore(s, SkipSpaces(s, i))
         ELSE <<s[i]>> \o SpacesToUnderscore(s, i + 1)

LowerCaseAll(s) == [i \in 1..Len(s) |-> toLowerCase(s[i])]

(* a variant that does not undo the degree suffix *)
LabelToKey_KeepsSuffix(featureLabel) == LowerCaseAll(SpacesToUnderscore(featureLabel, 1))

(* the key getOriginalValueFromNormalized derives from a displayed label *)
LabelToKey(featureLabel) ==
    LET unmarked == UnmarkCelsius(featureLabel, 1)
        joined   == SpacesToUnderscore(unmarked, 1)
        lowered  == LowerCaseAll(joined)
        tbw      == ReplaceFirst(lowered, <<"t","b","w","_","t","b">>, <<"t","b","w","_","t","b">>)
    IN  ReplaceFirst(tbw, <<"t","b","r","_","t","b">>, <<"t","b","r","_","t","b">>)

----------------------------------------------------------------------------
(* The two max-value tables. *)

DefaultMaxValue == 100

maxValues ==
    [name \in {Power_On_Hours, Total_TBW_TB, Total_TBR_TB, Temperature_C, Percent_Life_Used, Media_Errors, Unsafe_Shutdowns, CRC_Errors, Read_Error_Rate, Write_Error_Rate} |->
        CASE name = Power_On_Hours -> 60000
          [] name = Total_TBW_TB -> 1000
          [] name = Total_TBR_TB -> 800
          [] name = Temperature_C -> 90
          [] name = Percent_Life_Used -> 150
          [] name = Media_Errors -> 10
          [] name = Unsafe_Shutdowns -> 10
          [] name = CRC_Errors -> 5
          [] name = Read_Error_Rate -> 20
          [] name = Write_Error_Rate -> 15]

maxValuesByKey ==
    [key \in {key_power_on_hours, key_total_tbw_tb, key_total_tbr_tb, key_temperature_c, key_percent_life_used, key_media_errors, key_unsafe_shutdowns, key_crc_errors, key_read_error_rate, key_write_error_rate} |->
        CASE key = key_power_on_hours -> 60000
          [] key = key_total_tbw_tb -> 1000
          [] key = key_total_tbr_tb -> 800
          [] key = key_temperature_c -> 90
          [] key = key_percent_life_used -> 150
          [] key = key_media_errors -> 10
          [] key = key_unsafe_shutdowns -> 10
          [] key = key_crc_errors -> 5
          [] key = key_read_error_rate -> 20
          [] key = key_write_error_rate -> 15]


----------------------------------------------------------------------------
(* Bounds of the model. *)

(* number of input fields the feature service declares *)
NumFields == 2

(* input events, Predict clicks and Auto-fill clicks explored in one session *)
MaxEdits == 1

MaxPredicts == 2

MaxScans == 1

(* largest contribution mapping handed to displayTopContributions directly *)
MaxContribs == 6

----------------------------------------------------------------------------
(* The page's state. *)

VARIABLES
    phase,               \* "loading" until initializeApp has finished, then "ready"
    featureDefaults,     \* let featureDefaults: ordered <<name, value>> pairs
    radarCharts,         \* let radarCharts: per chart, whether it exists, labels, data
    currentInputData,    \* let currentInputData
    form,                \* #inputForm: the inputs in document order, <<id, content>>
    tempThreshold,       \* window.tempThreshold
    predictBtnDisabled,  \* #predictBtn.disabled
    autoFillBtnDisabled, \* #autoFillBtn.disabled
    predictFetch,        \* predict requests sent and not yet handled
    scanFetch,           \* system-info requests sent and not yet handled
    overallStatus,       \* #overallStatus: icon, text, class
    riskMeters,          \* #riskMeters: one meter per entry of summary.predictions
    recommendationsList, \* #recommendationsList
    panels,              \* per model: risk indicator, meters, needle, contributions
    autoFillStatus,      \* #autoFillStatus
    activeTab,           \* the tab made active by switchTab
    lastEvent,           \* the handler step taken last and the alert it raised
    edits, predicts, scans,  \* events used so far (bounded above)
    call, ret            \* a direct call of one of the page's functions and its result

vars == <<phase, featureDefaults, radarCharts, currentInputData, form, tempThreshold,
          predictBtnDisabled, autoFillBtnDisabled, predictFetch, scanFetch,
          overallStatus, riskMeters, recommendationsList, panels, autoFillStatus,
          activeTab, lastEvent, edits, predicts, scans, call, ret>>

domVars == <<overallStatus, riskMeters, recommendationsList, panels, radarCharts,
             activeTab>>

ModelTypes == <<"wearout", "thermal", "power", "controller">>

TypeSet == {ModelTypes[i] : i \in 1..4}

TypeIndex(type) == CHOOSE i \in 1..4 : ModelTypes[i] = type

(* Object.keys / Object.values of an ordered mapping <<key, value>>, ...   *)
Keys(mapping) == [i \in 1..Len(mapping) |-> mapping[i][1]]

Values(mapping) == [i \in 1..Len(mapping) |-> mapping[i][2]]

Undefined == <<"undefined">>

----------------------------------------------------------------------------
(* Normalizer *)

(* maxValues[featureName] || 100 *)
MaxValueOf(featureName) ==
    IF featureName \in DOMAIN maxValues THEN maxValues[featureName] ELSE DefaultMaxValue

(* a variant that leaves out Math.min *)
normalizeWith_Unclamped(defaults, value, index) ==
    LET featureNames == Keys(defaults)
        featureName  == IF index + 1 \in 1..Len(featureNames)
                        THEN featureNames[index + 1] ELSE Undefined
    IN  RMul(RDiv(value, Num(MaxValueOf(featureName))), Num(100))

(* normalizeFeatureValue with the featureDefaults it reads made explicit;  *)
(* index counts from 0 as in the source                                    *)
normalizeWith(defaults, value, index) ==
    LET featureNames == Keys(defaults)
        featureName  == IF index + 1 \in 1..Len(featureNames)
                        THEN featureNames[index + 1] ELSE Undefined
        maxValue     == MaxValueOf(featureName)
    IN  MathMin(RMul(RDiv(value, Num(maxValue)), Num(100)), Num(100))

normalizeFeatureValue(value, index) == normalizeWith(featureDefaults, value, index)

getOriginalValueFromNormalized(normalizedValue, featureLabel) ==
    LET featureName == LabelToKey(featureLabel)
        maxValue    == IF featureName \in DOMAIN maxValuesByKey
                       THEN maxValuesByKey[featureName] ELSE DefaultMaxValue
    IN  toFixed(RMul(RDiv(normalizedValue, Num(100)), Num(maxValue)), 2)

(* the tooltip's label callback: the text shown for point dataIndex of a   *)
(* chart, as <<feature label, value string>>                               *)
TooltipLabel(chart, dataIndex) ==
    LET feature == chart.labels[dataIndex + 1]
    IN  <<feature, getOriginalValueFromNormalized(chart.data[dataIndex + 1], feature)>>

----------------------------------------------------------------------------
(* The input form *)

(* The content of an input is a decimal text (kind "number", with the      *)
(* value it denotes), a text parseFloat cannot read (kind "garbage", for   *)
(* instance the empty string) or a text whose value overflows the double   *)
(* range (kind "overflow", for instance 1e999).                            *)
NumberText(v) == [kind |-> "number", num |-> v]

GarbageText == [kind |-> "garbage", num |-> NaN]

OverflowText == [kind |-> "overflow", num |-> Infinity]

EmptyText == GarbageText

parseFloat(text) ==
    CASE text.kind = "number"   -> text.num
      [] text.kind = "garbage"  -> NaN
      [] text.kind = "overflow" -> Infinity

(* input.value = value for every entry of an ordered mapping whose input   *)
(* exists; an entry whose value is null (written NaN here) leaves its      *)
(* input alone                                                             *)
FillFields(fields, mapping) ==
    [i \in 1..Len(fields) |->
        LET hits == {k \in 1..Len(mapping) : mapping[k][1] = fields[i][1] /\ mapping[k][2] # NaN}
        IN  IF hits = {} THEN fields[i]
            ELSE <<fields[i][1], NumberText(mapping[CHOOSE k \in hits : \A j \in hits : j <= k][2])>>]

createInputFields(features) == [i \in 1..Len(features) |-> <<features[i], EmptyText>>]

collectInputData(fields) ==
    [i \in 1..Len(fields) |->
        LET value == parseFloat(fields[i][2])
        IN  <<fields[i][1], IF IsNaN(value) THEN Num(0) ELSE value>>]

validateInputs(data) ==
    \A i \in 1..Len(data) : ~IsNaN(data[i][2]) /\ IsFinite(data[i][2])


----------------------------------------------------------------------------
(* Radar charts *)

(* A chart: its point labels and data, and (for reference only) the raw    *)
(* values the data was computed from.                                      *)
NoChart == [exists |-> FALSE, labels |-> <<>>, data |-> <<>>, source |-> <<>>]

(* Object.values(featureDefaults).map(v => normalizeFeatureValue(v, 0)),   *)
(* the data initializeRadarCharts and resetForm give a chart               *)
DefaultsChartData(defaults) ==
    [i \in 1..Len(defaults) |-> normalizeWith(defaults, Values(defaults)[i], 0)]

(* the chart built for one canvas by initializeRadarCharts *)
NewRadarChart(defaults) ==
    [exists |-> TRUE,
     labels |-> [i \in 1..Len(defaults) |-> formatLabel(Keys(defaults)[i])],
     data   |-> DefaultsChartData(defaults),
     source |-> Values(defaults)]

(* chart.data.datasets[0].data after updateRadarChart(type, inputData) *)
updateRadarChart(chart, inputData) ==
    IF ~chart.exists THEN chart
    ELSE [chart EXCEPT
            !.data = [i \in 1..Len(inputData) |->
                        normalizeFeatureValue(Values(inputData)[i], i - 1)],
            !.source = Values(inputData)]

(* the chart after the "Reset radar chart" step of resetForm *)
resetRadarChart(chart) ==
    IF ~chart.exists THEN chart
    ELSE [chart EXCEPT !.data = DefaultsChartData(featureDefaults),
                       !.source = Values(featureDefaults)]

----------------------------------------------------------------------------
(* Contributions *)

NoDataAvailable == <<"N","o"," ","d","a","t","a"," ","a","v","a","i","l","a","b","l","e">>

NoData == <<"N","o"," ","d","a","t","a">>

(* A contribution mapping as received: whether the property is there at    *)
(* all, and its entries in arrival order.                                  *)
NoContributions == [defined |-> FALSE, entries |-> <<>>]

Contributions(entries) == [defined |-> TRUE, entries |-> entries]

(* Array.prototype.sort((a, b) => b[1] - a[1]): a stable sort, descending  *)
(* by percentage; entries that compare equal keep their arrival order.     *)
RECURSIVE InsertDesc(_, _)
InsertDesc(sorted, e) ==
    IF sorted = <<>> THEN <<e>>
    ELSE IF RLess(Head(sorted)[2], e[2])
         THEN <<e>> \o sorted
         ELSE <<Head(sorted)>> \o InsertDesc(Tail(sorted), e)

RECURSIVE SortDesc(_)
SortDesc(entries) ==
    IF entries = <<>> THEN <<>>
    ELSE InsertDesc(SortDesc(SubSeq(entries, 1, Len(entries) - 1)), entries[Len(entries)])

TopN == 5

(* .slice(0, 5) *)
Slice5(entries) == SubSeq(entries, 1, IF Len(entries) < TopN THEN Len(entries) ELSE TopN)

barColor(percentage) ==
    IF RLess(Num(60), percentage) THEN "#e74c3c"
    ELSE IF RLess(Num(30), percentage) THEN "#f39c12"
    ELSE "#3498db"

(* a variant that tests only whether the mapping is there *)
displayTopContributions_OnlyAbsent(contributions) ==
    IF ~contributions.defined
    THEN <<[name |-> NoDataAvailable, value |-> <<0, 1>>, width |-> Num(0),
            color |-> "none", ranked |-> FALSE]>>
    ELSE LET sortedContributions == Slice5(SortDesc(contributions.entries))
         IN  [i \in 1..Len(sortedContributions) |->
                LET percentage == sortedContributions[i][2]
                IN  [name   |-> formatLabel(sortedContributions[i][1]),
                     value  |-> toFixed(percentage, 1),
                     width  |-> MathMin(percentage, Num(100)),
                     color  |-> barColor(percentage),
                     ranked |-> TRUE]]

(* the items displayTopContributions puts into the container *)
displayTopContributions(contributions) ==
    IF ~contributions.defined \/ Len(contributions.entries) = 0
    THEN <<[name |-> NoDataAvailable, value |-> <<0, 1>>, width |-> Num(0),
            color |-> "none", ranked |-> FALSE]>>
    ELSE LET sortedContributions == Slice5(SortDesc(contributions.entries))
         IN  [i \in 1..Len(sortedContributions) |->
                LET percentage == sortedContributions[i][2]
                IN  [name   |-> formatLabel(sortedContributions[i][1]),
                     value  |-> toFixed(percentage, 1),
                     width  |-> MathMin(percentage, Num(100)),
                     color  |-> barColor(percentage),
                     ranked |-> TRUE]]

(* the container's content after resetForm *)
ResetContributions ==
    <<[name |-> NoData, value |-> <<0, 1>>, width |-> Num(0), color |-> "none",
       ranked |-> FALSE]>>

----------------------------------------------------------------------------
(* One model's panel *)

MinAngle == -135

MaxAngle == 135

StaticPanel ==
    [writer |-> "static", riskValue |-> <<0, 1>>, meterWidth |-> Num(0),
     speedMeterValue |-> <<0, 1>>, needleAngle |-> Num(MinAngle), speedColor |-> "none",
     contributions |-> <<>>]

ResetPanel ==
    [writer |-> "reset", riskValue |-> <<0, 1>>, meterWidth |-> Num(0),
     speedMeterValue |-> <<0, 1>>, needleAngle |-> Num(MinAngle), speedColor |-> "#27ae60",
     contributions |-> ResetContributions]

(* data.risk_percentage || 0 *)
OrZero(x) == IF IsNaN(x) THEN Num(0) ELSE x

needleAngleOf(riskPercentage) ==
    LET span == RMul(RDiv(riskPercentage, Num(100)), Num(MaxAngle - MinAngle))
    IN  RSub(span, Num(-MinAngle))

speedColorOf(riskPercentage) ==
    IF RLess(riskPercentage, Num(30)) THEN "#27ae60"
    ELSE IF RLess(riskPercentage, Num(70)) THEN "#f39c12"
    ELSE "#e74c3c"

(* the panel after displayPrediction(type, data, inputData); the radar     *)
(* chart it also updates is kept in radarCharts                            *)
displayPrediction(data) ==
    LET riskPercentage == OrZero(data.risk_percentage)
    IN  [writer          |-> "prediction",
         riskValue       |-> toFixed(riskPercentage, 1),
         meterWidth      |-> MathMin(riskPercentage, Num(100)),
         speedMeterValue |-> toFixed(riskPercentage, 1),
         needleAngle     |-> needleAngleOf(riskPercentage),
         speedColor      |-> speedColorOf(riskPercentage),
         contributions   |-> displayTopContributions(data.contributions)]

----------------------------------------------------------------------------
(* Summary *)

(* a variant with a strict comparison *)
statusIcon_Strict(overall_risk) ==
    IF RLess(Num(50), overall_risk) THEN "fa-exclamation-triangle" ELSE "fa-check-circle"

statusIcon(overall_risk) ==
    IF RLeq(Num(50), overall_risk) THEN "fa-exclamation-triangle" ELSE "fa-check-circle"

statusClass(overall_risk) ==
    IF RLess(Num(70), overall_risk) THEN "status-danger"
    ELSE IF RLess(Num(50), overall_risk) THEN "status-warning"
    ELSE "status-healthy"

meterLabel(risk) ==
    IF RLess(risk, Num(50)) THEN "Low"
    ELSE IF RLess(risk, Num(70)) THEN "Medium"
    ELSE "High"

(* a variant that bands the first listed model's risk *)
displaySummaryStatus_FirstModel(summary) ==
    LET risk == IF summary.predictions = <<>> THEN Num(0) ELSE summary.predictions[1][2]
    IN  [writer    |-> "prediction",
         icon      |-> IF RLeq(Num(50), risk) THEN "fa-exclamation-triangle"
                       ELSE "fa-check-circle",
         text      |-> summary.status,
         className |-> IF RLess(Num(70), risk) THEN "status-danger"
                       ELSE IF RLess(Num(50), risk) THEN "status-warning"
                       ELSE "status-healthy"]

(* #overallStatus after displaySummary(summary) *)
displaySummaryStatus(summary) ==
    [writer    |-> "prediction",
     icon      |-> statusIcon(summary.overall_risk),
     text      |-> summary.status,
     className |-> statusClass(summary.overall_risk)]

(* #riskMeters after displaySummary(summary) *)
displaySummaryMeters(summary) ==
    [i \in 1..Len(summary.predictions) |->
        LET risk == summary.predictions[i][2]
        IN  [type  |-> summary.predictions[i][1],
             width |-> risk,
             value |-> toFixed(risk, 1),
             label |-> meterLabel(risk)]]

StaticStatus == [writer |-> "static", icon |-> "static", text |-> "static", className |-> "static"]

ResetStatus ==
    [writer |-> "reset", icon |-> "fa-check-circle", text |-> "No analysis performed yet",
     className |-> "status-healthy"]


----------------------------------------------------------------------------
(* The services the page talks to.  Their code is outside frontend/; what  *)
(* they may answer is drawn from the sets below.                           *)

CatalogOrder ==
    <<Power_On_Hours, Total_TBW_TB, Total_TBR_TB, Temperature_C, Percent_Life_Used,
      Media_Errors, Unsafe_Shutdowns, CRC_Errors, Read_Error_Rate, Write_Error_Rate>>

(* default values served by /features *)
DefaultValues ==
    <<Num(1000), Num(50), Num(40), Num(35), Num(10), Num(0), Num(1), Num(0), Num(1), Num(1)>>

(* data.defaults of the /features answer for a catalog of n features *)
DefaultsOf(n) == [i \in 1..n |-> <<CatalogOrder[i], DefaultValues[i]>>]

(* const sampleData of provideSampleData *)
sampleData ==
    <<<<Power_On_Hours, Num(15000)>>, <<Total_TBW_TB, Rat(2457, 10)>>,
      <<Total_TBR_TB, Rat(1983, 10)>>, <<Temperature_C, Rat(475, 10)>>,
      <<Percent_Life_Used, Rat(652, 10)>>, <<Media_Errors, Num(1)>>,
      <<Unsafe_Shutdowns, Num(2)>>, <<CRC_Errors, Num(0)>>,
      <<Read_Error_Rate, Rat(37, 10)>>, <<Write_Error_Rate, Rat(24, 10)>>>>

SampleTempThreshold == 84

(* result.data of a successful /system-info answer: a drive past the       *)
(* Power_On_Hours scale, no reading (null) for Total_TBW_TB                *)
ScanData ==
    <<<<Power_On_Hours, Num(70000)>>, <<Total_TBW_TB, NaN>>, <<Total_TBR_TB, Num(400)>>,
      <<Temperature_C, Num(95)>>>>

(* answers of /system-info: a failure, or success with result.temp_threshold *)
(* (0 when the scan found none)                                             *)
ScanResponses ==
    {[kind |-> "failure", temp_threshold |-> 0],
     [kind |-> "ok", temp_threshold |-> 0],
     [kind |-> "ok", temp_threshold |-> 70]}

ModelResult(risk, contributions) ==
    [present |-> TRUE, risk_percentage |-> risk, contributions |-> contributions]

(* results.<type> is missing from the answer *)
MissingResult == [present |-> FALSE, risk_percentage |-> NaN, contributions |-> NoContributions]

RMax(a, b) == IF RLess(a, b) THEN b ELSE a

RECURSIVE MaxOf(_)
MaxOf(rs) == IF Len(rs) = 1 THEN rs[1] ELSE RMax(rs[1], MaxOf(Tail(rs)))

(* the per-model risks of the results that are present, in model order *)
PresentRisks(results) ==
    LET F[i \in 0..4] ==
            IF i = 0 THEN <<>>
            ELSE IF results[ModelTypes[i]].present
                 THEN Append(F[i - 1], <<ModelTypes[i], results[ModelTypes[i]].risk_percentage>>)
                 ELSE F[i - 1]
    IN  F[4]

classify_status(overall_risk) ==
    IF RLess(Num(70), overall_risk) THEN "Danger"
    ELSE IF RLess(Num(50), overall_risk) THEN "Warning"
    ELSE "Healthy"

(* one recommendation per model whose risk exceeds 50, in model order; a   *)
(* single reassuring message when overall_risk < 50                        *)
Recommendations(perModel, overall_risk) ==
    IF RLess(overall_risk, Num(50)) THEN <<"all-clear">>
    ELSE LET F[i \in 0..Len(perModel)] ==
                IF i = 0 THEN <<>>
                ELSE IF RLess(Num(50), perModel[i][2])
                     THEN Append(F[i - 1], perModel[i][1])
                     ELSE F[i - 1]
         IN  F[Len(perModel)]

(* results.summary as the prediction service builds it *)
SummaryAggregator(results) ==
    LET perModel == PresentRisks(results)
        overall  == IF perModel = <<>> THEN Num(0) ELSE MaxOf(Values(perModel))
    IN  [overall_risk   |-> overall,
         status         |-> classify_status(overall),
         predictions    |-> perModel,
         recommendation |-> Recommendations(perModel, overall)]

(* what a predict request can come back with *)
PredictAnswers(resultSets) ==
    {[kind |-> k, results |-> [t \in TypeSet |-> MissingResult]] :
        k \in {"networkError", "httpError", "notSuccess"}}
    \cup {[kind |-> "ok", results |-> r] : r \in resultSets}

----------------------------------------------------------------------------
(* Handlers *)

Event(name, alert) == [name |-> name, alert |-> alert]

StaticPanels == [t \in TypeSet |-> StaticPanel]

Init ==
    /\ phase = "loading"
    /\ featureDefaults = <<>>
    /\ radarCharts = [t \in TypeSet |-> NoChart]
    /\ currentInputData = <<>>
    /\ form = <<>>
    /\ tempThreshold = 0
    /\ predictBtnDisabled = FALSE
    /\ autoFillBtnDisabled = FALSE
    /\ predictFetch = <<>>
    /\ scanFetch = 0
    /\ overallStatus = StaticStatus
    /\ riskMeters = <<>>
    /\ recommendationsList = <<"static">>
    /\ panels = StaticPanels
    /\ autoFillStatus = "static"
    /\ activeTab = "static"
    /\ lastEvent = Event("load", "")
    /\ edits = 0 /\ predicts = 0 /\ scans = 0
    /\ call = [fn |-> "none"] /\ ret = [fn |-> "none"]

(* initializeApp, the /features answer having arrived with `defaults`      *)
(* (data.features lists the same names in the same order)                  *)
InitializeApp(defaults) ==
    /\ phase = "loading"
    /\ phase' = "ready"
    /\ featureDefaults' = defaults
    /\ form' = FillFields(createInputFields(Keys(defaults)), defaults)
    /\ currentInputData' = collectInputData(form')
    /\ radarCharts' = [t \in TypeSet |-> NewRadarChart(defaults)]
    /\ lastEvent' = Event("initializeApp", "")
    /\ UNCHANGED <<tempThreshold, predictBtnDisabled, autoFillBtnDisabled, predictFetch,
                   scanFetch, overallStatus, riskMeters, recommendationsList, panels,
                   autoFillStatus, activeTab, edits, predicts, scans, call, ret>>

(* initializeApp, the /features request having failed *)
InitializeAppFailed ==
    /\ phase = "loading"
    /\ phase' = "ready"
    /\ lastEvent' = Event("initializeApp",
                          "Failed to initialize application. Please check if backend is running.")
    /\ UNCHANGED <<featureDefaults, radarCharts, currentInputData, form, tempThreshold,
                   predictBtnDisabled, autoFillBtnDisabled, predictFetch, scanFetch,
                   overallStatus, riskMeters, recommendationsList, panels, autoFillStatus,
                   activeTab, edits, predicts, scans, call, ret>>

(* the user types `text` into input i: its 'input' listener saves the data *)
EditField(i, text) ==
    /\ phase = "ready"
    /\ i \in 1..Len(form)
    /\ edits < MaxEdits
    /\ edits' = edits + 1
    /\ form' = [form EXCEPT ![i] = <<form[i][1], text>>]
    /\ currentInputData' = collectInputData(form')
    /\ lastEvent' = Event("input", "")
    /\ UNCHANGED <<phase, featureDefaults, radarCharts, tempThreshold, predictBtnDisabled,
                   autoFillBtnDisabled, predictFetch, scanFetch, overallStatus, riskMeters,
                   recommendationsList, panels, autoFillStatus, activeTab, predicts, scans,
                   call, ret>>


(* a variant that never disables the button *)
showLoading_NeverDisables(show) == predictBtnDisabled' = FALSE

(* showLoading(show) *)
showLoading(show) == predictBtnDisabled' = show

(* a variant that sends the input data alone *)
Payload_NoThreshold(inputData) ==
    [data |-> inputData, has_temp_threshold |-> FALSE, temp_threshold |-> 0]

(* the body of the predict request: the input data, and temp_threshold     *)
(* when window.tempThreshold is truthy                                     *)
Payload(inputData) ==
    [data               |-> inputData,
     has_temp_threshold |-> tempThreshold # 0,
     temp_threshold     |-> tempThreshold]

(* predictAllFailures up to its first await: a click on #predictBtn *)
PredictClick ==
    /\ phase = "ready"
    /\ ~predictBtnDisabled
    /\ predicts < MaxPredicts
    /\ predicts' = predicts + 1
    /\ LET inputData == collectInputData(form)
       IN  IF ~validateInputs(inputData)
           THEN /\ lastEvent' = Event("predictRejected",
                                      "Please fill all fields with valid numbers")
                /\ UNCHANGED <<predictBtnDisabled, predictFetch>>
           ELSE /\ showLoading(TRUE)
                /\ predictFetch' = Append(predictFetch,
                                          [inputData |-> inputData, payload |-> Payload(inputData)])
                /\ lastEvent' = Event("predictSent", "")
    /\ UNCHANGED <<phase, featureDefaults, radarCharts, currentInputData, form, tempThreshold,
                   autoFillBtnDisabled, scanFetch, overallStatus, riskMeters,
                   recommendationsList, panels, autoFillStatus, activeTab, edits, scans,
                   call, ret>>

(* the first model, in display order, whose result is missing; 5 if none *)
FirstMissing(results) ==
    IF \E i \in 1..4 : ~results[ModelTypes[i]].present
    THEN CHOOSE i \in 1..4 :
            /\ ~results[ModelTypes[i]].present
            /\ \A j \in 1..(i - 1) : results[ModelTypes[j]].present
    ELSE 5

(* displayResults(results, inputData): the summary, then the four panels   *)
(* in order; reading a missing result throws and ends the function there   *)
displayResults(results, inputData) ==
    LET summary == SummaryAggregator(results)
        stop    == FirstMissing(results)
    IN  /\ overallStatus' = displaySummaryStatus(summary)
        /\ riskMeters' = displaySummaryMeters(summary)
        /\ recommendationsList' = summary.recommendation
        /\ panels' = [t \in TypeSet |->
                        IF TypeIndex(t) < stop THEN displayPrediction(results[t])
                        ELSE panels[t]]
        /\ radarCharts' = [t \in TypeSet |->
                            IF TypeIndex(t) < stop THEN updateRadarChart(radarCharts[t], inputData)
                            ELSE radarCharts[t]]
        /\ activeTab' = IF stop = 5 THEN "summary" ELSE activeTab

(* predictAllFailures after its awaits: the answer to the oldest request   *)
PredictRespond(answer) ==
    /\ predictFetch # <<>>
    /\ predictFetch' = Tail(predictFetch)
    /\ IF answer.kind = "ok"
       THEN /\ displayResults(answer.results, Head(predictFetch).inputData)
            /\ lastEvent' = IF FirstMissing(answer.results) = 5
                            THEN Event("predictDisplayed", "")
                            ELSE Event("predictFailed",
                                       "Failed to get predictions. Please try again.")
       ELSE /\ lastEvent' = Event("predictFailed",
                                  "Failed to get predictions. Please try again.")
            /\ UNCHANGED domVars
    /\ showLoading(FALSE)
    /\ UNCHANGED <<phase, featureDefaults, currentInputData, form, tempThreshold,
                   autoFillBtnDisabled, scanFetch, autoFillStatus, edits, predicts, scans,
                   call, ret>>

(* autoFillSystemData up to its first await: a click on #autoFillBtn *)
AutoFillClick ==
    /\ phase = "ready"
    /\ ~autoFillBtnDisabled
    /\ scans < MaxScans
    /\ scans' = scans + 1
    /\ autoFillBtnDisabled' = TRUE
    /\ autoFillStatus' = "scanning"
    /\ scanFetch' = scanFetch + 1
    /\ lastEvent' = Event("scanSent", "")
    /\ UNCHANGED <<phase, featureDefaults, radarCharts, currentInputData, form, tempThreshold,
                   predictBtnDisabled, predictFetch, overallStatus, riskMeters,
                   recommendationsList, panels, activeTab, edits, predicts, call, ret>>

(* autoFillSystemData after its awaits; a failure of any kind falls back   *)
(* to provideSampleData                                                    *)
AutoFillRespond(answer) ==
    /\ scanFetch > 0
    /\ scanFetch' = scanFetch - 1
    /\ IF answer.kind = "ok"
       THEN /\ form' = FillFields(form, ScanData)
            /\ autoFillStatus' = "retrieved"
            /\ tempThreshold' = IF answer.temp_threshold # 0 THEN answer.temp_threshold
                                ELSE tempThreshold
            /\ lastEvent' = Event("scanFilled", "")
       ELSE /\ form' = FillFields(form, sampleData)
            /\ autoFillStatus' = "sample"
            /\ tempThreshold' = SampleTempThreshold
            /\ lastEvent' = Event("scanFallback", "")
    /\ currentInputData' = collectInputData(form')
    /\ autoFillBtnDisabled' = FALSE
    /\ UNCHANGED <<phase, featureDefaults, radarCharts, predictBtnDisabled, predictFetch,
                   overallStatus, riskMeters, recommendationsList, panels, activeTab,
                   edits, predicts, scans, call, ret>>

(* resetForm: a click on #resetBtn *)
resetForm ==
    /\ phase = "ready"
    /\ form' = FillFields(form, featureDefaults)
    /\ currentInputData' = collectInputData(form')
    /\ overallStatus' = ResetStatus
    /\ panels' = [t \in TypeSet |-> ResetPanel]
    /\ radarCharts' = [t \in TypeSet |-> resetRadarChart(radarCharts[t])]
    /\ recommendationsList' = <<"Enter drive parameters and click \"Predict All Failures\"">>
    /\ riskMeters' = <<>>
    /\ autoFillStatus' = ""
    /\ lastEvent' = Event("resetForm", "")
    /\ UNCHANGED <<phase, featureDefaults, tempThreshold, predictBtnDisabled,
                   autoFillBtnDisabled, predictFetch, scanFetch, activeTab, edits, predicts,
                   scans, call, ret>>

----------------------------------------------------------------------------
(* The session: a catalog of NumFields features, and a prediction service  *)
(* whose per-model answers are drawn from SessionResults.                  *)

InputTexts == {NumberText(Num(-5)), GarbageText, OverflowText}

TiedContributions ==
    Contributions(<<<<Total_TBW_TB, Num(80)>>, <<Power_On_Hours, Num(80)>>,
                    <<Temperature_C, Num(10)>>>>)

HealthyResult == ModelResult(Num(20), Contributions(<<>>))

CriticalResult == ModelResult(Num(72), TiedContributions)

(* a healthy answer, a critical one, and a critical one that lacks one     *)
(* model's result                                                          *)
SessionResults ==
    {[t \in TypeSet |-> HealthyResult], [t \in TypeSet |-> CriticalResult]}
    \cup {[t \in TypeSet |-> IF t = missing THEN MissingResult ELSE CriticalResult] :
            missing \in TypeSet}

Next ==
    \/ InitializeApp(DefaultsOf(NumFields))
    \/ InitializeAppFailed
    \/ \E i \in 1..NumFields, text \in InputTexts : EditField(i, text)
    \/ PredictClick
    \/ \E answer \in PredictAnswers(SessionResults) : PredictRespond(answer)
    \/ AutoFillClick
    \/ \E answer \in ScanResponses : AutoFillRespond(answer)
    \/ resetForm

Spec == Init /\ [][Next]_vars


----------------------------------------------------------------------------
(* Direct calls.  The page's functions are applied one at a time to inputs *)
(* drawn from the sets below, in the state initializeApp leaves behind for *)
(* the full catalog followed by one feature the scale tables do not know.  *)

FullDefaults == DefaultsOf(Len(CatalogOrder)) \o <<<<Wear_Level, Num(50)>>>>

(* values to normalize for the feature at `index`: fractions and multiples *)
(* of its maximum, and values with three decimals                          *)
ValuesFor(index) ==
    LET m == Num(MaxValueOf(IF index + 1 \in 1..Len(FullDefaults)
                            THEN Keys(FullDefaults)[index + 1] ELSE Undefined))
    IN  {RMul(m, f) : f \in {Num(0), Rat(1, 3), Rat(1, 2), Rat(999, 1000), Num(1),
                             Rat(1001, 1000), Num(2)}}
        \cup {Rat(1, 8), Rat(12345, 1000), Rat(4004, 1000)}

PctValues == {Num(10), Rat(455, 10), Num(80)}

Reverse(q) == [i \in 1..Len(q) |-> q[Len(q) + 1 - i]]

(* contribution mappings of up to MaxContribs entries, arriving in catalog *)
(* order or in the opposite order; an absent mapping                       *)
ContributionInputs ==
    {NoContributions}
    \cup UNION {
        UNION {{Contributions([i \in 1..n |-> <<CatalogOrder[i], pct[i]>>]),
                Contributions(Reverse([i \in 1..n |-> <<CatalogOrder[i], pct[i]>>]))} :
               pct \in [1..n -> PctValues]} :
        n \in 0..MaxContribs}

SixContributions ==
    Contributions([i \in 1..6 |-> <<CatalogOrder[i], Num(10 * i)>>])

(* what the prediction service may answer for one model: risks on and      *)
(* around the band edges and outside [0,100], or no result at all          *)
GridModelResults ==
    {ModelResult(Num(-5), NoContributions),
     ModelResult(Rat(499, 10), Contributions(<<>>)),
     ModelResult(Num(50), TiedContributions),
     ModelResult(Num(70), TiedContributions),
     ModelResult(Rat(701, 10), SixContributions),
     ModelResult(Num(150), SixContributions),
     MissingResult}

NoCall == [fn |-> "none"]

restVars == <<phase, featureDefaults, currentInputData, form, tempThreshold,
              predictBtnDisabled, autoFillBtnDisabled, predictFetch, scanFetch,
              autoFillStatus, lastEvent, edits, predicts, scans>>

InitFn ==
    /\ phase = "ready"
    /\ featureDefaults = FullDefaults
    /\ form = FillFields(createInputFields(Keys(FullDefaults)), FullDefaults)
    /\ currentInputData = collectInputData(form)
    /\ radarCharts = [t \in TypeSet |-> NewRadarChart(FullDefaults)]
    /\ tempThreshold = 0
    /\ predictBtnDisabled = FALSE
    /\ autoFillBtnDisabled = FALSE
    /\ predictFetch = <<>>
    /\ scanFetch = 0
    /\ overallStatus = StaticStatus
    /\ riskMeters = <<>>
    /\ recommendationsList = <<"static">>
    /\ panels = StaticPanels
    /\ autoFillStatus = "static"
    /\ activeTab = "static"
    /\ lastEvent = Event("initializeApp", "")
    /\ edits = 0 /\ predicts = 0 /\ scans = 0
    /\ ret = NoCall
    /\ \/ \E index \in 0..Len(FullDefaults) : \E value \in ValuesFor(index) :
            call = [fn |-> "normalizeFeatureValue", value |-> value, index |-> index]
       \/ \E index \in 0..(Len(FullDefaults) - 1) : \E value \in ValuesFor(index) :
            call = [fn |-> "tooltip", value |-> value, index |-> index]
       \/ \E contributions \in ContributionInputs :
            call = [fn |-> "displayTopContributions", contributions |-> contributions]
       \/ \E results \in [TypeSet -> GridModelResults] :
            call = [fn |-> "displayResults", results |-> results]

CallNormalize ==
    /\ call.fn = "normalizeFeatureValue" /\ ret = NoCall
    /\ ret' = [fn |-> call.fn, value |-> normalizeFeatureValue(call.value, call.index)]
    /\ UNCHANGED <<restVars, domVars, call>>

(* a point plotted by updateRadarChart and read back by the tooltip        *)
CallTooltip ==
    /\ call.fn = "tooltip" /\ ret = NoCall
    /\ LET inputData == [currentInputData EXCEPT ![call.index + 1][2] = call.value]
           chart     == updateRadarChart(radarCharts["wearout"], inputData)
       IN  ret' = [fn |-> call.fn, shown |-> TooltipLabel(chart, call.index)]
    /\ UNCHANGED <<restVars, domVars, call>>

CallDisplayTopContributions ==
    /\ call.fn = "displayTopContributions" /\ ret = NoCall
    /\ ret' = [fn |-> call.fn, items |-> displayTopContributions(call.contributions)]
    /\ UNCHANGED <<restVars, domVars, call>>

CallDisplayResults ==
    /\ call.fn = "displayResults" /\ ret = NoCall
    /\ displayResults(call.results, currentInputData)
    /\ ret' = [fn |-> call.fn]
    /\ UNCHANGED <<restVars, call>>

NextFn == CallNormalize \/ CallTooltip \/ CallDisplayTopContributions \/ CallDisplayResults

SpecFn == InitFn /\ [][NextFn]_vars


----------------------------------------------------------------------------
(* Properties *)

(* the scale maximum of a feature: its table entry, 100 without one *)
ScaleMax(feature) == IF feature \in DOMAIN maxValues THEN maxValues[feature] ELSE 100

(* C1: for a non-negative value v and a feature with scale maximum m,     *)
(* normalizeFeatureValue returns exactly 100 when v >= m and (v/m)*100    *)
(* when 0 <= v < m, and never more than 100.                              *)
C1_NormalizeScalesAndClamps ==
    (ret.fn = "normalizeFeatureValue" /\ call.index < Len(featureDefaults)
        /\ RLeq(Num(0), call.value))
    => LET v == call.value
           m == Num(ScaleMax(Keys(featureDefaults)[call.index + 1]))
       IN  /\ RLeq(m, v) => ret.value = Num(100)
           /\ RLess(v, m) => RMul(ret.value, m) = RMul(v, Num(100))
           /\ RLeq(ret.value, Num(100))

(* a value above the default maximum, for the feature without an entry *)
C1_Witness ==
    /\ ret.fn = "normalizeFeatureValue"
    /\ call.index < Len(featureDefaults)
    /\ Keys(featureDefaults)[call.index + 1] = Wear_Level
    /\ call.value = Num(200)
    /\ ret.value = Num(100)

(* the value a chart should plot for feature i of the catalog *)
OwnScale(i, v) ==
    LET m == Num(ScaleMax(Keys(featureDefaults)[i]))
        n == RMul(RDiv(v, m), Num(100))
    IN  IF RLess(Num(100), n) THEN Num(100) ELSE n

(* C2: every point a radar chart holds is the normalization of its        *)
(* feature's value by that feature's own maximum.                         *)
C2_PointsUseOwnMaximum ==
    \A t \in TypeSet :
        radarCharts[t].exists =>
            \A i \in 1..Len(radarCharts[t].data) :
                radarCharts[t].data[i] = OwnScale(i, radarCharts[t].source[i])

(* C3: for a catalog feature with maximum m, a value 0 <= v <= m plotted  *)
(* and read back through its displayed label comes back as v to within    *)
(* two-decimal rounding; a value above m comes back as m.                 *)
C3_RoundTripThroughLabel ==
    (ret.fn = "tooltip" /\ Keys(featureDefaults)[call.index + 1] \in DOMAIN maxValues
        /\ RLeq(Num(0), call.value))
    => LET v     == call.value
           m     == Num(maxValues[Keys(featureDefaults)[call.index + 1]])
           back  == Rat(ret.shown[2][1], ret.shown[2][2])
           error == RSub(back, v)
       IN  /\ RLeq(v, m) => RLeq(Rat(-5, 1000), error) /\ RLeq(error, Rat(5, 1000))
           /\ RLess(m, v) => back = m

(* Temperature_C, whose label carries the degree suffix: 12.345 reads 12.35 *)
C3_Witness ==
    /\ ret.fn = "tooltip"
    /\ Keys(featureDefaults)[call.index + 1] = Temperature_C
    /\ call.value = Rat(12345, 1000)
    /\ ret.shown[1] = <<"T","e","m","p","e","r","a","t","u","r","e"," ","(","°","C",")">>
    /\ ret.shown[2] = <<1235, 100>>

(* the catalog position of the feature a displayed label stands for *)
CatalogPosition(label) ==
    CHOOSE k \in 1..Len(featureDefaults) : formatLabel(Keys(featureDefaults)[k]) = label

(* C4: for a non-empty contribution mapping the displayed list has at     *)
(* most 5 entries, is sorted descending by percentage, and lists equal    *)
(* percentages in the catalog's feature order.                            *)
C4_TopFiveInCatalogOrder ==
    (ret.fn = "displayTopContributions" /\ call.contributions.defined
        /\ call.contributions.entries # <<>>)
    => /\ Len(ret.items) <= 5
       /\ \A i \in 1..(Len(ret.items) - 1) :
            /\ RLeq(ret.items[i + 1].width, ret.items[i].width)
            /\ ret.items[i + 1].width = ret.items[i].width
                => CatalogPosition(ret.items[i].name) < CatalogPosition(ret.items[i + 1].name)

(* the overall risk of the summary a direct displayResults call displayed *)
OverallRisk == SummaryAggregator(call.results).overall_risk

(* C5: the status band is Healthy below 50, Warning from 50 up to and     *)
(* including 70, Danger above 70.                                         *)
C5_StatusBands ==
    ret.fn = "displayResults"
    => overallStatus.className =
        (IF RLess(OverallRisk, Num(50)) THEN "status-healthy"
         ELSE IF RLeq(OverallRisk, Num(70)) THEN "status-warning"
         ELSE "status-danger")

(* the per-model risks the summary's meters show *)
ShownRisks == [i \in 1..Len(riskMeters) |-> riskMeters[i].width]

IsBadText(text) == text.kind # "number" \/ RLess(text.num, Num(0))

(* C7: a Predict click with a negative, non-numeric or infinite field     *)
(* sends no request: a request has just been sent only if no field held   *)
(* such a value.                                                          *)
C7_BadInputSendsNothing ==
    lastEvent.name = "predictSent" => \A i \in 1..Len(form) : ~IsBadText(form[i][2])

InPercentRange(x) == RLeq(Num(0), x) /\ RLeq(x, Num(100))

(* C8: after a prediction every displayed risk text, meter width and      *)
(* needle angle corresponds to a value in [0,100].                        *)
C8_DisplayedRisksClamped ==
    ret.fn = "displayResults"
    => /\ \A t \in TypeSet :
            panels[t].writer = "prediction"
            => /\ InPercentRange(Rat(panels[t].riskValue[1], panels[t].riskValue[2]))
               /\ InPercentRange(Rat(panels[t].speedMeterValue[1], panels[t].speedMeterValue[2]))
               /\ InPercentRange(panels[t].meterWidth)
               /\ RLeq(Num(MinAngle), panels[t].needleAngle)
               /\ RLeq(panels[t].needleAngle, Num(MaxAngle))
       /\ \A i \in 1..Len(riskMeters) :
            /\ InPercentRange(riskMeters[i].width)
            /\ InPercentRange(Rat(riskMeters[i].value[1], riskMeters[i].value[2]))

(* C9: an empty or absent contribution mapping yields the one-entry       *)
(* "No data available" placeholder at 0%, unranked and uncoloured.        *)
C9_EmptyStatePlaceholder ==
    (ret.fn = "displayTopContributions"
        /\ (~call.contributions.defined \/ call.contributions.entries = <<>>))
    => /\ Len(ret.items) = 1
       /\ ret.items[1].name = NoDataAvailable
       /\ ret.items[1].value = <<0, 1>>
       /\ ret.items[1].width = Num(0)
       /\ ~ret.items[1].ranked

(* the mapping is there and empty *)
C9_Witness ==
    /\ ret.fn = "displayTopContributions"
    /\ call.contributions = Contributions(<<>>)
    /\ ret.items[1].name = NoDataAvailable

(* C10: the icon is the check mark strictly below 50 and the warning      *)
(* triangle at or above 50, whatever band is selected.                    *)
C10_IconThreshold ==
    ret.fn = "displayResults"
    => overallStatus.icon =
        (IF RLess(OverallRisk, Num(50)) THEN "fa-check-circle" ELSE "fa-exclamation-triangle")

(* exactly 50: the triangle, beside the class the code gives that value *)
C10_Witness ==
    /\ ret.fn = "displayResults"
    /\ OverallRisk = Num(50)
    /\ overallStatus.icon = "fa-exclamation-triangle"
    /\ overallStatus.className = "status-healthy"


(* what a prediction writes: the summary, the four panels and their charts *)
resultViews == <<overallStatus, riskMeters, recommendationsList, panels, radarCharts>>

IsPredictOutcome(name) == name \in {"predictDisplayed", "predictFailed"}

(* C11: a prediction answer either updates the summary and all four       *)
(* panels from the same answer, or (on any failure, with one error        *)
(* reported) changes none of them.                                        *)
C11_DisplayIsAtomic ==
    [][/\ lastEvent'.name = "predictFailed"
            => /\ UNCHANGED resultViews
               /\ lastEvent'.alert # ""
       /\ lastEvent'.name = "predictDisplayed"
            => /\ overallStatus'.writer = "prediction"
               /\ Len(riskMeters') = 4
               /\ \A i \in 1..4 :
                    /\ panels'[ModelTypes[i]].writer = "prediction"
                    /\ panels'[ModelTypes[i]].riskValue = riskMeters'[i].value]_vars

C13_DisabledIffOutstanding ==
    /\ predictBtnDisabled <=> predictFetch # <<>>
    /\ Len(predictFetch) <= 1
    /\ lastEvent.name = "predictRejected" => ~predictBtnDisabled

(* enabled again after an answer that failed part-way through the display *)
C13_Witness ==
    /\ lastEvent.name = "predictFailed"
    /\ overallStatus.writer = "prediction"
    /\ ~predictBtnDisabled
    /\ predictFetch = <<>>

(* C14: the answer to a request that was in flight when Reset was clicked *)
(* does not overwrite the reset display, and the charts do not show       *)
(* values other than those in the form.  Stated for the handler step that *)
(* directly follows resetForm: a request then outstanding was sent before *)
(* the reset.                                                             *)
C14_ResetDisplayStays ==
    [][(lastEvent.name = "resetForm" /\ IsPredictOutcome(lastEvent'.name))
        => /\ UNCHANGED resultViews
           /\ \A t \in TypeSet :
                radarCharts'[t].exists
                => radarCharts'[t].source = Values(collectInputData(form'))]_vars

====
